---------------------------- MODULE Spec2Model ----------------------------
(***************************************************************************)
(* The GLOF early-warning scoring endpoint of src/main.py.                 *)
(*                                                                         *)
(* predict_glof works on Python floats (IEEE-754 binary64).  A float is    *)
(* modelled exactly: a sign, an arbitrary-precision significand and a      *)
(* binary exponent, every arithmetic operation rounded to 53 significant   *)
(* bits, ties to even.  TLC's integers are 32 bits wide, so significands   *)
(* are kept as little-endian sequences of 15-bit limbs.                    *)
(***************************************************************************)
EXTENDS Integers, Sequences, FiniteSets, TLC

(***************************************************************************)
(* Natural numbers of any size: <<l1, l2, ...>> is l1 + l2*B + l3*B^2 ...  *)
(* with no leading (high) zero limb; <<>> is 0.  Carries are found by      *)
(* look-ahead rather than by recursion, which keeps evaluation shallow.    *)
(***************************************************************************)
LimbBits == 15

B == 2^LimbBits

\* the number of bits of n, 0 <= n < 2^30
BitLenSmall(n) ==
    CHOOSE k \in 0..30 : IF k = 0 THEN n = 0 ELSE 2^(k - 1) <= n /\ n < 2^k

Max(S) == CHOOSE x \in S : \A y \in S : y <= x

Min(S) == CHOOSE x \in S : \A y \in S : x <= y

\* a sequence given as a function on 1..n, made explicit
Limbs(f) == f \o <<>>

BNorm(a) == SubSeq(a, 1, Max({0} \cup {i \in 1..Len(a) : a[i] # 0}))

BigOf(n) == IF n = 0 THEN <<>> ELSE IF n < B THEN <<n>> ELSE <<n % B, n \div B>>

Limb(a, i) == IF i <= Len(a) THEN a[i] ELSE 0

\* the carry into place i of the sums t, each below 2 * B
Carry(t, i) ==
    IF \E j \in 1..(i - 1) : t[j] >= B /\ \A k \in (j + 1)..(i - 1) : t[k] = B - 1
    THEN 1 ELSE 0

\* the number whose place i holds t[i] < 2 * B (the last one 0 or 1)
BCarry(t) == BNorm(Limbs([i \in 1..Len(t) |-> (t[i] + Carry(t, i)) % B]))

BAdd(a, b) ==
    BCarry(Limbs([i \in 1..(Max({Len(a), Len(b)}) + 1) |-> Limb(a, i) + Limb(b, i)]))

\* the borrow from place i of the differences t, each above -B
Borrow(t, i) ==
    IF \E j \in 1..(i - 1) : t[j] < 0 /\ \A k \in (j + 1)..(i - 1) : t[k] = 0
    THEN 1 ELSE 0

BBorrow(t) == BNorm(Limbs([i \in 1..Len(t) |-> (t[i] - Borrow(t, i) + B) % B]))

\* a - b for a >= b
BSub(a, b) == BBorrow(Limbs([i \in 1..Len(a) |-> a[i] - Limb(b, i)]))

\* -1, 0, 1 as a < b, a = b, a > b
BCmp(a, b) ==
    IF Len(a) # Len(b) THEN (IF Len(a) < Len(b) THEN -1 ELSE 1)
    ELSE IF a = b THEN 0
    ELSE IF \E i \in 1..Len(a) :
                a[i] < b[i] /\ \A k \in (i + 1)..Len(a) : a[k] = b[k]
         THEN -1 ELSE 1

\* the number whose place c holds col[c] < B * B: the low half of each
\* column stays, the high half moves up one place
BCols(col) ==
    BCarry(Limbs([c \in 1..(Len(col) + 1) |->
              (Limb(col, c) % B) + (IF c > 1 THEN col[c - 1] \div B ELSE 0)]))

\* a * k for 0 <= k <= B
BMulSmall(a, k) == BCols(Limbs([i \in 1..Len(a) |-> a[i] * k]))

\* a * B^n
BShlLimbs(a, n) == IF a = <<>> THEN <<>> ELSE [i \in 1..n |-> 0] \o a

\* f[lo] + ... + f[hi], by halves
RECURSIVE SumOf(_, _, _)
SumOf(f, lo, hi) ==
    IF lo > hi THEN 0
    ELSE IF lo = hi THEN f[lo]
    ELSE SumOf(f, lo, (lo + hi) \div 2) + SumOf(f, (lo + hi) \div 2 + 1, hi)

\* a[i] * b[c + 1 - i], the product of a[i] that belongs to column c
Prod(a, b, c, i) ==
    IF c + 1 - i >= 1 /\ c + 1 - i <= Len(b) THEN a[i] * b[c + 1 - i] ELSE 0

\* a * b: column c collects the low halves of its own products and the high
\* halves of the products of column c - 1, so that no sum leaves 31 bits
BMul(a, b) ==
    BCols(Limbs([c \in 1..(Len(a) + Len(b)) |->
              SumOf([i \in 1..Len(a) |->
                        (Prod(a, b, c, i) % B) + (Prod(a, b, c - 1, i) \div B)],
                    1, Len(a))]))

\* a * 2^n
BShl(a, n) == BShlLimbs(BMulSmall(a, 2^(n % LimbBits)), n \div LimbBits)

\* floor(h / 2^r) for r < LimbBits
BShrBits(h, r) ==
    BNorm(Limbs([i \in 1..Len(h) |->
             (h[i] \div 2^r) + (Limb(h, i + 1) % 2^r) * 2^(LimbBits - r)]))

\* floor(a / 2^n)
BShr(a, n) == BShrBits(SubSeq(a, n \div LimbBits + 1, Len(a)), n % LimbBits)

BBitLen(a) == IF a = <<>> THEN 0 ELSE (Len(a) - 1) * LimbBits + BitLenSmall(a[Len(a)])

\* a mod 2^n
BLow(a, n) ==
    IF n \div LimbBits >= Len(a) THEN a
    ELSE BNorm(SubSeq(a, 1, n \div LimbBits)
                   \o <<a[n \div LimbBits + 1] % 2^(n % LimbBits)>>)

\* floor(a / k) for 0 < k < B, limb by limb from the top; st is
\* <<limbs left, quotient limbs so far, remainder>>
RECURSIVE BDivSmallAt(_, _, _)
BDivSmallAt(a, k, st) ==
    IF st[1] = 0 THEN BNorm(st[2])
    ELSE BDivSmallAt(a, k, <<st[1] - 1,
                             <<(st[3] * B + a[st[1]]) \div k>> \o st[2],
                             (st[3] * B + a[st[1]]) % k>>)

BDivSmall(a, k) == BDivSmallAt(a, k, <<Len(a), <<>>, 0>>)

\* the quotient of the two top limbs of cur by the top limb of b: at most 2
\* above the quotient limb when the top limb of b is at least B / 2 (Knuth,
\* 4.3.1 D)
QEstimate(cur, b) ==
    Min({B - 1, (Limb(cur, Len(b) + 1) * B + Limb(cur, Len(b))) \div b[Len(b)]})

QFrom(est, cur, b) ==
    Max({d \in {est - 2, est - 1, est} : d >= 0 /\ BCmp(BMulSmall(b, d), cur) <= 0})

\* one quotient limb: the largest d < B with b * d <= cur, for cur < b * B
QDigit(cur, b) == QFrom(QEstimate(cur, b), cur, b)

\* the quotient limb d and what it leaves of cur
QTake(cur, b, d) == <<d, BSub(cur, BMulSmall(b, d))>>

BDivModLimb(cur, b) == QTake(cur, b, QDigit(cur, b))

BDivModPush(st, dr) == <<st[1] - 1, <<dr[1]>> \o st[2], dr[2]>>

\* one step of long division, from the top limb down; st is
\* <<limbs left, quotient limbs so far, remainder>>
BDivModStep(a, b, st) ==
    BDivModPush(st, BDivModLimb(BNorm(<<a[st[1]]>> \o st[3]), b))

RECURSIVE BDivModAt(_, _, _)
BDivModAt(a, b, st) ==
    IF st[1] = 0 THEN <<BNorm(st[2]), st[3]>>
    ELSE BDivModAt(a, b, BDivModStep(a, b, st))

\* <<floor(a / b), a mod b>> for b > 0 with its top limb at least B / 2
BDivModTop(a, b) == BDivModAt(a, b, <<Len(a), <<>>, <<>>>>)

\* the remainder of a division scaled by 2^sh, scaled back
BDivModBack(qr, sh) == <<qr[1], BShr(qr[2], sh)>>

BDivModBy(a, b, sh) == BDivModBack(BDivModTop(BShl(a, sh), BShl(b, sh)), sh)

\* <<floor(a / b), a mod b>> for b > 0; both are first scaled to bring the
\* top limb of b to at least B / 2
BDivMod(a, b) == BDivModBy(a, b, LimbBits - BitLenSmall(b[Len(b)]))

(***************************************************************************)
(* Python floats.  [s, m, e] is (-1)^s * m * 2^e with m odd, or m = <<>>   *)
(* for a zero (which keeps its sign, as in IEEE-754).  The valid ranges    *)
(* keep every value the handler computes far from the subnormal range;     *)
(* the only overflow, that of math.exp, is modelled in Exp.                *)
(***************************************************************************)
Precision == 53

\* the exponent of the smallest positive float, 2^-1074
MinExp == -1074

\* floats end below 2^MaxExp
MaxExp == 1024

\* the place of the lowest limb of a # 0 that is not 0
LowLimb(a) == CHOOSE i \in 1..Len(a) : a[i] # 0 /\ \A k \in 1..(i - 1) : a[k] = 0

\* the place of the lowest bit of 0 < n < B that is set
LowBit(n) == CHOOSE u \in 0..(LimbBits - 1) : n % 2^(u + 1) # 0 /\ n % 2^u = 0

TrailingZerosAt(a, j) == (j - 1) * LimbBits + LowBit(a[j])

\* the number of trailing zero bits of a # 0
TrailingZeros(a) == TrailingZerosAt(a, LowLimb(a))

CanonBy(s, n, e, tz) == [s |-> s, m |-> BShr(n, tz), e |-> e + tz]

Canon(s, n, e) ==
    IF n = <<>> THEN [s |-> s, m |-> <<>>, e |-> 0]
    ELSE CanonBy(s, n, e, TrailingZeros(n))

\* whether q, the bits of a number above its lowest d bits, goes up by one:
\* cmp compares the bits dropped, low, with one half
RoundsUp(cmp, low, q, sticky, mode) ==
    CASE mode = "nearest" -> cmp > 0 \/ (cmp = 0 /\ (sticky \/ Limb(q, 1) % 2 = 1))
      [] mode = "below" -> FALSE
      [] OTHER -> sticky \/ low # <<>>

FRoundCut(s, q, low, e, d, sticky, mode) ==
    Canon(s,
          IF RoundsUp(BCmp(low, BShl(<<1>>, d - 1)), low, q, sticky, mode)
          THEN BAdd(q, <<1>>) ELSE q,
          e + d)

FRoundAt(s, n, e, d, sticky, mode) ==
    IF d <= 0 THEN Canon(s, n, e)
    ELSE FRoundCut(s, BShr(n, d), BLow(n, d), e, d, sticky, mode)

\* (n + f) * 2^e, 0 <= f < 1 and f # 0 iff sticky, rounded to Precision bits
\* (fewer below 2^-1022, where the spacing stays 2^MinExp).  mode "nearest" is
\* IEEE round-to-nearest, ties to even, which every float operation of the
\* handler uses; "below" and "above" truncate and round away (see Exp).
FRoundMode(s, n, e, sticky, mode) ==
    FRoundAt(s, n, e, Max({BBitLen(n) - Precision, MinExp - e}), sticky, mode)

FRound(s, n, e, sticky) == FRoundMode(s, n, e, sticky, "nearest")

\* the float of a Python int (|n| < 2^30)
FromInt(n) == Canon(IF n < 0 THEN 1 ELSE 0, BigOf(IF n < 0 THEN -n ELSE n), 0)

IsZero(x) == x.m = <<>>

FNeg(x) == [x EXCEPT !.s = 1 - x.s]

\* the exponent of the bit above the highest bit of x # 0
Top(x) == BBitLen(x.m) + x.e

\* the significand of x at exponent e0 <= x.e
Aligned(x, e0) == BShl(x.m, x.e - e0)

MagCmpAt(x, y, e0) == BCmp(Aligned(x, e0), Aligned(y, e0))

\* -1, 0, 1 as |x| < |y|, |x| = |y|, |x| > |y|
MagCmp(x, y) ==
    IF IsZero(x) THEN (IF IsZero(y) THEN 0 ELSE -1)
    ELSE IF IsZero(y) THEN 1
    ELSE IF Top(x) # Top(y) THEN (IF Top(x) < Top(y) THEN -1 ELSE 1)
    ELSE MagCmpAt(x, y, Min({x.e, y.e}))

\* -1, 0, 1 as x < y, x = y, x > y (numerically: -0.0 = 0.0)
FCmp(x, y) ==
    IF IsZero(x) /\ IsZero(y) THEN 0
    ELSE IF IsZero(x) THEN (IF y.s = 1 THEN 1 ELSE -1)
    ELSE IF IsZero(y) THEN (IF x.s = 1 THEN -1 ELSE 1)
    ELSE IF x.s # y.s THEN (IF x.s = 1 THEN -1 ELSE 1)
    ELSE (1 - 2 * x.s) * MagCmp(x, y)

FLt(x, y) == FCmp(x, y) < 0

FLe(x, y) == FCmp(x, y) <= 0

FEq(x, y) == FCmp(x, y) = 0

Zero == [s |-> 0, m |-> <<>>, e |-> 0]

One == [s |-> 0, m |-> <<1>>, e |-> 0]

FMul(x, y) ==
    FRound((x.s + y.s) % 2, BMul(x.m, y.m), x.e + y.e, FALSE)

FDivRound(x, y, k, qr) ==
    FRound((x.s + y.s) % 2, qr[1], x.e - y.e - k, qr[2] # <<>>)

\* x / y from the quotient and the remainder of x.m * 2^k by y.m
FDivBy(x, y, k) == FDivRound(x, y, k, BDivMod(BShl(x.m, k), y.m))

\* x / y for y # 0: the quotient is taken to Precision + 2 bits at least
FDiv(x, y) ==
    IF IsZero(x) THEN [s |-> (x.s + y.s) % 2, m |-> <<>>, e |-> 0]
    ELSE FDivBy(x, y, Max({0, Precision + 2 + BBitLen(y.m) - BBitLen(x.m)}))

\* sx * ax + sy * ay at exponent e0, c comparing ax with ay
FAddSigned(sx, ax, sy, ay, e0, c) ==
    IF sx # sy /\ c = 0 THEN Zero
    ELSE FRound(IF sx = sy \/ c > 0 THEN sx ELSE sy,
                IF sx = sy THEN BAdd(ax, ay)
                ELSE IF c > 0 THEN BSub(ax, ay) ELSE BSub(ay, ax),
                e0, FALSE)

FAddAligned(sx, ax, sy, ay, e0) == FAddSigned(sx, ax, sy, ay, e0, BCmp(ax, ay))

FAddAt(x, y, e0) == FAddAligned(x.s, Aligned(x, e0), y.s, Aligned(y, e0), e0)

FAdd(x, y) ==
    IF IsZero(x) /\ IsZero(y)
    THEN [s |-> IF x.s = 1 /\ y.s = 1 THEN 1 ELSE 0, m |-> <<>>, e |-> 0]
    ELSE IF IsZero(x) THEN y
    ELSE IF IsZero(y) THEN x
    ELSE FAddAt(x, y, Min({x.e, y.e}))

FSub(x, y) == FAdd(x, FNeg(y))

\* a decimal literal n/d (float("1.2"), the literal 1.2): correctly rounded
Dec(n, d) == FDiv(FromInt(n), FromInt(d))

(***************************************************************************)
(* math.exp.  The value is computed in fixed point to 2^-ExpFrac, far      *)
(* beyond float precision, and then rounded.  libm's exp is accurate to    *)
(* under one unit in the last place but need not round correctly, so the   *)
(* rounding direction of an inexact result is a parameter: one of Libms    *)
(* for a given build.  exp(0) is 1 exactly.                                *)
(***************************************************************************)
Libms == {"nearest", "below", "above"}

\* floor(ln 2 * 2^135)
Ln2Fix == <<22432, 29430, 12295, 3790, 24143, 30618, 31289, 1533, 22713>>

Ln2Frac == 9 * LimbBits

ExpFrac == 6 * LimbBits

\* a natural number below B^2 given by its limbs
SmallOf(a) == Limb(a, 1) + Limb(a, 2) * B

\* floor(m * 2^e) for a natural number m
BScale(m, e) == IF e >= 0 THEN BShl(m, e) ELSE BShr(m, -e)

\* |a - b|
BDist(a, b) == IF BCmp(a, b) >= 0 THEN BSub(a, b) ELSE BSub(b, a)

\* the terms r^n / n! of the series of e^r, n = 0, 1, ..., in fixed point,
\* summed separately for even and odd n until they vanish; st is
\* <<n, term n, even sum, odd sum>>
ExpStep(r, st) ==
    <<st[1] + 1,
      BDivSmall(BShr(BMul(st[2], r), ExpFrac), st[1] + 1),
      IF st[1] % 2 = 0 THEN BAdd(st[3], st[2]) ELSE st[3],
      IF st[1] % 2 = 0 THEN st[4] ELSE BAdd(st[4], st[2])>>

\* the series to its end: <<even sum, odd sum>>
RECURSIVE ExpSeries(_, _)
ExpSeries(r, st) ==
    IF st[2] = <<>> THEN <<st[3], st[4]>> ELSE ExpSeries(r, ExpStep(r, st))

\* e^r or e^-r from the sums of the even and of the odd terms of e^r
ExpSigned(rneg, sums) ==
    IF rneg THEN BSub(sums[1], sums[2]) ELSE BAdd(sums[1], sums[2])

\* e^x from x = k ln 2 + r, where xf is |x| and kl is |k| ln 2 in fixed
\* point to 2^-Ln2Frac
ExpReduced(x, kabs, xf, kl) ==
    <<ExpSigned(IF x.s = 0 THEN BCmp(xf, kl) < 0 ELSE BCmp(xf, kl) > 0,
                ExpSeries(BShr(BDist(xf, kl), Ln2Frac - ExpFrac),
                          <<0, BShl(<<1>>, ExpFrac), <<>>, <<>>>>)),
      IF x.s = 0 THEN kabs ELSE -kabs>>

ExpReduce(x, kabs) ==
    ExpReduced(x, kabs, BScale(x.m, x.e + Ln2Frac), BMulSmall(Ln2Fix, kabs))

\* e^x for 0 < |x| < 1024 as <<S, k>>: e^x = S * 2^(k - ExpFrac) up to 2^-80,
\* by x = k ln 2 + r, |r| < 0.4, and the series of e^r
ExpFix(x) ==
    ExpReduce(x, (SmallOf(BScale(x.m, x.e + 6)) * 23637 + 2^19) \div 2^20)

\* the exponent of the bit above the highest bit of the fixed-point f
ExpTop(f) == BBitLen(f[1]) + f[2] - ExpFrac

\* math.exp raises OverflowError when the result is not a finite float
ExpOverflows(x) ==
    /\ ~IsZero(x)
    /\ x.s = 0
    /\ \/ Top(x) > 10
       \/ ExpTop(ExpFix(x)) > MaxExp

ExpRound(f, mode) == FRoundMode(0, f[1], f[2] - ExpFrac, TRUE, mode)

Exp(x, mode) ==
    IF IsZero(x) THEN One
    ELSE IF Top(x) > 10 THEN Zero
    ELSE ExpRound(ExpFix(x), mode)

\* the integer nearest to n / 2^d for d > 0, ties to even: q is the integer
\* below and cmp compares what is left with one half
NearestEvenAt(q, cmp) ==
    IF cmp > 0 \/ (cmp = 0 /\ Limb(q, 1) % 2 = 1) THEN BAdd(q, <<1>>) ELSE q

NearestEven(n, d) == NearestEvenAt(BShr(n, d), BCmp(BLow(n, d), BShl(<<1>>, d - 1)))

\* round(x, 3): the float nearest to x rounded to 3 decimals, ties to even
\* on the exact value of x; the sign is kept (round(-0.0, 3) is -0.0)
Round3(x) ==
    FDiv(Canon(x.s,
               IF x.e >= 0 THEN BShl(BMulSmall(x.m, 1000), x.e)
               ELSE NearestEven(BMulSmall(x.m, 1000), -x.e),
               0),
         FromInt(1000))

(***************************************************************************)
(* The request model PredictRequest and the handler predict_glof.          *)
(***************************************************************************)
\* libm: the rounding of the C library's exp on this build; clients: which
\* bodies the clients send (a name, see Sent); pool: the threads that serve; and per thread: pc,
\* where its call stands; request, the body it received last; locals, the
\* local variables of its call; response, the response it sent last
VARIABLES libm, clients, pool, pc, request, locals, response

vars == <<libm, clients, pool, pc, request, locals, response>>

Threads == {1, 2}

\* a variable that is not set
None == [none |-> TRUE]

\* the locals of a call that has just begun
NoLocals == [features |-> None, linear |-> None, risk_score |-> None]

Fields == <<"lake_area_km2", "slope_deg", "rainfall_mm_24h", "temperature_c",
            "glacier_melt_index", "distance_to_settlement_km",
            "dam_moraine_integrity">>


\* PredictRequest with ge=0 in place of gt=0 on lake_area_km2
PredictRequestGe ==
    [lake_area_km2 |-> [ge |-> 0, le |-> 500],
     slope_deg |-> [ge |-> 0, le |-> 90],
     rainfall_mm_24h |-> [ge |-> 0, le |-> 1000],
     temperature_c |-> [ge |-> -40, le |-> 50],
     glacier_melt_index |-> [ge |-> 0, le |-> 1],
     distance_to_settlement_km |-> [ge |-> 0, le |-> 200],
     dam_moraine_integrity |-> [ge |-> 0, le |-> 1]]

\* the confloat(...) constraints of each field of PredictRequest
PredictRequest ==
    [lake_area_km2 |-> [gt |-> 0, le |-> 500],
     slope_deg |-> [ge |-> 0, le |-> 90],
     rainfall_mm_24h |-> [ge |-> 0, le |-> 1000],
     temperature_c |-> [ge |-> -40, le |-> 50],
     glacier_melt_index |-> [ge |-> 0, le |-> 1],
     distance_to_settlement_km |-> [ge |-> 0, le |-> 200],
     dam_moraine_integrity |-> [ge |-> 0, le |-> 1]]

\* one confloat check: every constraint the field declares holds of x
Constrained(c, x) ==
    /\ "gt" \in DOMAIN c => FLt(FromInt(c.gt), x)
    /\ "ge" \in DOMAIN c => FLe(FromInt(c.ge), x)
    /\ "le" \in DOMAIN c => FLe(x, FromInt(c.le))

\* the fields of a request body that fail validation
ValidationErrors(body) ==
    {k \in DOMAIN PredictRequest : ~Constrained(PredictRequest[k], body[k])}


\* w with the sign of the distance weight lost
wUnsigned ==
    [lake_area_km2 |-> Dec(12, 10),
     slope_deg |-> Dec(8, 10),
     rainfall_mm_24h |-> Dec(15, 10),
     temperature_c |-> Dec(3, 10),
     glacier_melt_index |-> FromInt(2),
     distance_to_settlement_km |-> Dec(6, 10),
     dam_moraine_integrity |-> FNeg(Dec(22, 10))]

\* the weights w
w == [lake_area_km2 |-> Dec(12, 10),
      slope_deg |-> Dec(8, 10),
      rainfall_mm_24h |-> Dec(15, 10),
      temperature_c |-> Dec(3, 10),
      glacier_melt_index |-> FromInt(2),
      distance_to_settlement_km |-> FNeg(Dec(6, 10)),
      dam_moraine_integrity |-> FNeg(Dec(22, 10))]


\* the temperature used as it is, without max(., 0)
Max0Missing(x) == x

\* max(x, 0): Python's max keeps its first argument unless a later one is
\* greater, so it is the int 0 when 0 > x and x itself otherwise (-0.0
\* stays -0.0)
Max0(x) == IF FLt(x, Zero) THEN Zero ELSE x

\* features with the distance multiplied by 10.0 instead of divided
featuresTimes(f) ==
    [lake_area_km2 |-> FDiv(f.lake_area_km2, FromInt(5)),
     slope_deg |-> FDiv(f.slope_deg, FromInt(45)),
     rainfall_mm_24h |-> FDiv(f.rainfall_mm_24h, FromInt(100)),
     temperature_c |-> FDiv(Max0(f.temperature_c), FromInt(20)),
     glacier_melt_index |-> f.glacier_melt_index,
     distance_to_settlement_km |-> FMul(f.distance_to_settlement_km, FromInt(10)),
     dam_moraine_integrity |-> f.dam_moraine_integrity]

\* features read from a payload kept in a module-level variable that the
\* first thread's requests overwrite, instead of from the call's own payload
featuresGlobal(f) ==
    LET g == IF request[1] # None THEN request[1] ELSE f
    IN  [lake_area_km2 |-> FDiv(g.lake_area_km2, FromInt(5)),
         slope_deg |-> FDiv(g.slope_deg, FromInt(45)),
         rainfall_mm_24h |-> FDiv(g.rainfall_mm_24h, FromInt(100)),
         temperature_c |-> FDiv(Max0(g.temperature_c), FromInt(20)),
         glacier_melt_index |-> g.glacier_melt_index,
         distance_to_settlement_km |-> FDiv(g.distance_to_settlement_km, FromInt(10)),
         dam_moraine_integrity |-> g.dam_moraine_integrity]

\* the scaled features
features(f) ==
    [lake_area_km2 |-> FDiv(f.lake_area_km2, FromInt(5)),
     slope_deg |-> FDiv(f.slope_deg, FromInt(45)),
     rainfall_mm_24h |-> FDiv(f.rainfall_mm_24h, FromInt(100)),
     temperature_c |-> FDiv(Max0(f.temperature_c), FromInt(20)),
     glacier_melt_index |-> f.glacier_melt_index,
     distance_to_settlement_km |-> FDiv(f.distance_to_settlement_km, FromInt(10)),
     dam_moraine_integrity |-> f.dam_moraine_integrity]

\* features[k] * w[k] for k in features
weighted(ft) == [k \in DOMAIN ft |-> FMul(ft[k], w[k])]


\* sum(xs) for a sequence xs: sum adds left to right, starting from the
\* int 0
RECURSIVE sum(_)
sum(xs) ==
    IF xs = <<>> THEN Zero
    ELSE FAdd(sum(SubSeq(xs, 1, Len(xs) - 1)), xs[Len(xs)])

\* the values of the dict d in the order of its keys
values(d) == [i \in 1..Len(Fields) |-> d[Fields[i]]]

\* linear with the bias added instead of subtracted
linearPlusBias(ft) == FAdd(sum(values(weighted(ft))), One)

\* sum(features[k] * w[k] for k in features) - 1.0
linear(ft) == FSub(sum(values(weighted(ft))), One)

\* 1.0 / (1.0 + math.exp(-linear))
sigmoid(lin, mode) == FDiv(One, FAdd(One, Exp(FNeg(lin), mode)))


\* the chain with <= in place of <
LevelLe(score) ==
    IF FLe(score, Dec(25, 100)) THEN "Low"
    ELSE IF FLe(score, Dec(5, 10)) THEN "Moderate"
    ELSE IF FLe(score, Dec(75, 100)) THEN "High"
    ELSE "Critical"

\* the if / elif chain on risk_score
Level(score) ==
    IF FLt(score, Dec(25, 100)) THEN "Low"
    ELSE IF FLt(score, Dec(5, 10)) THEN "Moderate"
    ELSE IF FLt(score, Dec(75, 100)) THEN "High"
    ELSE "Critical"

rec == [Low |-> "Maintain routine monitoring and update observations weekly.",
        Moderate |-> "Increase monitoring frequency, verify dam integrity on-site if feasible.",
        High |-> "Prepare early warning communications and evacuation drills for downstream communities.",
        Critical |-> "Issue alerts, restrict access, and activate emergency response protocols immediately."]


\* the response with the scaled features reported in place of the weighted
\* ones
PredictResponseUnweighted(score, lvl, ft) ==
    [status |-> 200,
     risk_score |-> Round3(score),
     risk_level |-> lvl,
     recommendation |-> rec[lvl],
     contributing_factors |-> [k \in DOMAIN ft |-> Round3(ft[k])]]

\* the response with the tier picked after rounding
PredictResponseRounded(score, lvl, ft) ==
    [status |-> 200,
     risk_score |-> Round3(score),
     risk_level |-> Level(Round3(score)),
     recommendation |-> rec[Level(Round3(score))],
     contributing_factors |-> [k \in DOMAIN ft |-> Round3(FMul(ft[k], w[k]))]]

\* the response model and the value the handler returns
PredictResponse(score, lvl, ft) ==
    [status |-> 200,
     risk_score |-> Round3(score),
     risk_level |-> lvl,
     recommendation |-> rec[lvl],
     contributing_factors |-> [k \in DOMAIN ft |-> Round3(FMul(ft[k], w[k]))]]

\* FastAPI's answer to a body that fails validation
Unprocessable(errors) == [status |-> 422, detail |-> errors]

\* raise HTTPException(status_code=400, detail=str(e))
HTTPException(e) == [status |-> 400, detail |-> e]

(***************************************************************************)
(* The requests the clients send.  A body is one of a few profiles with at *)
(* most one field replaced by another candidate value of that field; the   *)
(* candidates hold both ends of every declared range, values inside and    *)
(* values outside it.                                                      *)
(***************************************************************************)
\* (hi * 10^8 + lo) / 10^d, for decimal literals of more than 9 digits
Decimal(hi, lo, d) ==
    LET n   == BAdd(BMul(BigOf(hi), BigOf(10^8)), BigOf(lo))
        den == BMul(BigOf(10^(d \div 2)), BigOf(10^(d - d \div 2)))
    IN  FDiv(Canon(0, n, 0), Canon(0, den, 0))

Body(a, s, r, t, g, d, m) ==
    [lake_area_km2 |-> a, slope_deg |-> s, rainfall_mm_24h |-> r,
     temperature_c |-> t, glacier_melt_index |-> g,
     distance_to_settlement_km |-> d, dam_moraine_integrity |-> m]

Example == Body(FromInt(5), FromInt(45), FromInt(100), FromInt(20), One, FromInt(10), Zero)

Balanced == Body(Dec(25, 10), Zero, Zero, Zero, Dec(2, 10), Zero, Zero)

Highest == Body(FromInt(500), FromInt(90), FromInt(1000), FromInt(50), One, Zero, Zero)

Lowest == Body(Dec(1, 1000), Zero, Zero, FromInt(-40), Zero, FromInt(200), One)

Profiles == {Example, Balanced, Highest, Lowest}

Candidates ==
    [lake_area_km2 |-> {FromInt(-1), Zero, Dec(1, 1000), Dec(25, 10), FromInt(5),
                        FromInt(500), Dec(5005, 10)},
     slope_deg |-> {FromInt(-1), Zero, FromInt(45), FromInt(90), FromInt(91)},
     rainfall_mm_24h |-> {FromInt(-1), Zero, FromInt(100), FromInt(1000), FromInt(1001)},
     temperature_c |-> {FromInt(-41), FromInt(-40), FNeg(Zero), Zero, FromInt(20),
                        FromInt(50), FromInt(51)},
     glacier_melt_index |-> {FNeg(Dec(5, 10)), Zero, Dec(2, 10),
                             Decimal(7493061, 44334055, 15), One, Dec(15, 10)},
     distance_to_settlement_km |-> {FromInt(-1), Zero, FromInt(10), FromInt(200),
                                    FromInt(201)},
     dam_moraine_integrity |-> {FNeg(Dec(5, 10)), Zero,
                                Decimal(4993692, 22121868, 15), Dec(5, 10), One,
                                Dec(15, 10)}]

Payloads ==
    {[p EXCEPT ![k] = v] : <<p, k, v>> \in
        UNION {{<<p, k, v>> : v \in Candidates[k]} :
                   <<p, k>> \in Profiles \X DOMAIN Candidates}}

\* the bodies that differ from Balanced in dam_moraine_integrity at most
DamSeries ==
    {[Balanced EXCEPT !.dam_moraine_integrity = v] :
         v \in Candidates.dam_moraine_integrity}

\* the bodies the clients named c send
Sent(c) == IF c = "DamSeries" THEN DamSeries ELSE Payloads

\* the fields in which two bodies differ
Differ(a, b) == {k \in DOMAIN a : a[k] # b[k]}

(***************************************************************************)
(* The server: the threads of the pool that runs the handler (predict_glof *)
(* is a plain def, so each call runs on a thread of its own), each with    *)
(* the request it serves, the local variables of its call and the response *)
(* it sent last.                                                           *)
(***************************************************************************)
Init ==
    /\ libm \in Libms
    /\ clients = "Payloads"
    /\ pool = {1}
    /\ pc = [t \in Threads |-> "idle"]
    /\ request = [t \in Threads |-> None]
    /\ locals = [t \in Threads |-> NoLocals]
    /\ response = [t \in Threads |-> None]

\* a body arrives and is validated against PredictRequest before the
\* handler is called
Request(t, body) ==
    /\ pc[t] = "idle"
    /\ \A u \in pool \ {t} :
           request[u] # None => Cardinality(Differ(request[u], body)) <= 1
    /\ request' = [request EXCEPT ![t] = body]
    /\ locals' = [locals EXCEPT ![t] = NoLocals]
    /\ IF ValidationErrors(body) = {}
       THEN /\ pc' = [pc EXCEPT ![t] = "features"]
            /\ response' = [response EXCEPT ![t] = None]
       ELSE /\ pc' = pc
            /\ response' = [response EXCEPT ![t] = Unprocessable(ValidationErrors(body))]
    /\ UNCHANGED <<libm, clients, pool>>

\* lines 68-88
Scale(t) ==
    /\ pc[t] = "features"
    /\ locals' = [locals EXCEPT ![t].features = features(request[t])]
    /\ pc' = [pc EXCEPT ![t] = "linear"]
    /\ UNCHANGED <<libm, clients, pool, request, response>>

\* line 90
Linear(t) ==
    /\ pc[t] = "linear"
    /\ locals' = [locals EXCEPT ![t].linear = linear(locals[t].features)]
    /\ pc' = [pc EXCEPT ![t] = "sigmoid"]
    /\ UNCHANGED <<libm, clients, pool, request, response>>

\* line 91; math.exp raises OverflowError, which the except clause turns
\* into the 400 response
Sigmoid(t) ==
    /\ pc[t] = "sigmoid"
    /\ IF ExpOverflows(FNeg(locals[t].linear))
       THEN /\ response' = [response EXCEPT ![t] = HTTPException("math range error")]
            /\ pc' = [pc EXCEPT ![t] = "idle"]
            /\ UNCHANGED locals
       ELSE /\ locals' = [locals EXCEPT ![t].risk_score = sigmoid(locals[t].linear, libm)]
            /\ pc' = [pc EXCEPT ![t] = "level"]
            /\ UNCHANGED response
    /\ UNCHANGED <<libm, clients, pool, request>>

\* lines 93-111
Respond(t) ==
    /\ pc[t] = "level"
    /\ response' = [response EXCEPT ![t] =
           PredictResponse(locals[t].risk_score, Level(locals[t].risk_score),
                           locals[t].features)]
    /\ pc' = [pc EXCEPT ![t] = "idle"]
    /\ UNCHANGED <<libm, clients, pool, request, locals>>

Next ==
    \E t \in pool :
        \/ \E body \in Sent(clients) : Request(t, body)
        \/ Scale(t)
        \/ Linear(t)
        \/ Sigmoid(t)
        \/ Respond(t)

Spec == Init /\ [][Next]_vars

\* two threads serve at once, on a build whose exp is correctly rounded
InitPair ==
    /\ libm = "nearest"
    /\ clients = "Payloads"
    /\ pool = Threads
    /\ pc = [t \in Threads |-> "idle"]
    /\ request = [t \in Threads |-> None]
    /\ locals = [t \in Threads |-> NoLocals]
    /\ response = [t \in Threads |-> None]

SpecPair == InitPair /\ [][Next]_vars

\* two threads serve at once the clients that send the bodies of DamSeries
InitRace ==
    /\ libm \in Libms
    /\ clients = "DamSeries"
    /\ pool = Threads
    /\ pc = [t \in Threads |-> "idle"]
    /\ request = [t \in Threads |-> None]
    /\ locals = [t \in Threads |-> NoLocals]
    /\ response = [t \in Threads |-> None]

SpecRace == InitRace /\ [][Next]_vars

(***************************************************************************)
(* The properties.                                                         *)
(***************************************************************************)
\* thread t has answered the request it holds
Served(t) == pc[t] = "idle" /\ response[t] # None

\* thread t has answered the request it holds with a prediction
Scored(t) == Served(t) /\ response[t].status = 200

\* the request thread t holds lies in the ranges the specification declares
InDeclaredRanges(b) ==
    /\ FLt(Zero, b.lake_area_km2) /\ FLe(b.lake_area_km2, FromInt(500))
    /\ FLe(Zero, b.slope_deg) /\ FLe(b.slope_deg, FromInt(90))
    /\ FLe(Zero, b.rainfall_mm_24h) /\ FLe(b.rainfall_mm_24h, FromInt(1000))
    /\ FLe(FromInt(-40), b.temperature_c) /\ FLe(b.temperature_c, FromInt(50))
    /\ FLe(Zero, b.glacier_melt_index) /\ FLe(b.glacier_melt_index, One)
    /\ FLe(Zero, b.distance_to_settlement_km)
    /\ FLe(b.distance_to_settlement_km, FromInt(200))
    /\ FLe(Zero, b.dam_moraine_integrity) /\ FLe(b.dam_moraine_integrity, One)

Labels == {"Low", "Moderate", "High", "Critical"}

\* C1: for every request within the declared ranges, the probability
\* computed before rounding is strictly greater than 0 and strictly less
\* than 1, the extremes of the ranges included.
C1_ProbabilityStrictlyInside ==
    \A t \in Threads :
        locals[t].risk_score # None =>
            /\ FLt(Zero, locals[t].risk_score)
            /\ FLt(locals[t].risk_score, One)

\* C2: a request is accepted if and only if every field lies in its declared
\* range, the inclusive bounds accepted and 0 rejected for lake_area_km2; a
\* request outside them is answered with a client error that names the
\* offending fields before any scoring, its values are left as sent, and the
\* answer carries no risk score, tier or contribution.
C2_AcceptsExactlyDeclaredRanges ==
    \A t \in Threads :
        request[t] # None =>
            IF InDeclaredRanges(request[t])
            THEN pc[t] = "idle" => /\ response[t] # None
                                   /\ response[t].status # 422
            ELSE /\ pc[t] = "idle"
                 /\ response[t] # None
                 /\ response[t].status = 422
                 /\ DOMAIN response[t] = {"status", "detail"}
                 /\ response[t].detail # {}
                 /\ \A k \in response[t].detail :
                        ~InDeclaredRanges([Example EXCEPT ![k] = request[t][k]])
                 /\ locals[t] = NoLocals

C2_Witness ==
    \E t \in Threads :
        /\ request[t] # None
        /\ request[t].slope_deg = FromInt(91)
        /\ Served(t)
        /\ response[t].status = 422
        /\ response[t].detail = {"slope_deg"}

\* C4: the tier is a total function of the probability p computed before
\* rounding, one tier for each p: Low when p < 0.25, Moderate when
\* 0.25 <= p < 0.5, High when 0.5 <= p < 0.75, Critical when p >= 0.75, so
\* that a probability equal to a threshold gets the upper tier.
C4_TierOfProbability ==
    \A t \in Threads :
        Scored(t) =>
            LET p == locals[t].risk_score
                l == response[t].risk_level
            IN  /\ l \in Labels
                /\ l = "Low" <=> FLt(p, Dec(25, 100))
                /\ l = "Moderate" <=> FLe(Dec(25, 100), p) /\ FLt(p, Dec(5, 10))
                /\ l = "High" <=> FLe(Dec(5, 10), p) /\ FLt(p, Dec(75, 100))
                /\ l = "Critical" <=> FLe(Dec(75, 100), p)

C4_Witness ==
    \E t \in Threads :
        /\ Scored(t)
        /\ IsZero(locals[t].linear)
        /\ locals[t].risk_score = Dec(5, 10)
        /\ response[t].risk_level = "High"

\* C6: for every request that passes validation the scoring completes with
\* a prediction: the call never ends in the 400 response of the except
\* clause, -linear stays at or below 15.2 so that exp cannot overflow, and
\* the returned risk_level is one of the four labels.
C6_ScoringNeverRaises ==
    \A t \in Threads :
        (request[t] # None /\ ValidationErrors(request[t]) = {}) =>
            /\ locals[t].linear # None =>
                   FLe(FNeg(locals[t].linear), Dec(152, 10))
            /\ pc[t] = "idle" => /\ response[t] # None
                                 /\ response[t].status = 200
                                 /\ response[t].risk_level \in Labels

C6_Witness ==
    \E t \in Threads :
        /\ request[t] = Lowest
        /\ Scored(t)
        /\ FLt(FromInt(15), FNeg(locals[t].linear))

\* C7: for lake_area 5, slope 45, rainfall 100, temperature 20, melt index
\* 1, distance 10 and dam integrity 0 the contributions are 1.2, 0.8, 1.5,
\* 0.3, 2.0, -0.6 and 0, linear is 4.2, the returned risk_score is 0.985 and
\* the tier is Critical.
C7_Example ==
    \A t \in Threads :
        request[t] = Body(FromInt(5), FromInt(45), FromInt(100), FromInt(20),
                          FromInt(1), FromInt(10), FromInt(0)) =>
            /\ locals[t].linear # None =>
                   LET c == [k \in DOMAIN w |-> FMul(locals[t].features[k], w[k])]
                   IN  /\ FEq(c.lake_area_km2, Dec(12, 10))
                       /\ FEq(c.slope_deg, Dec(8, 10))
                       /\ FEq(c.rainfall_mm_24h, Dec(15, 10))
                       /\ FEq(c.temperature_c, Dec(3, 10))
                       /\ FEq(c.glacier_melt_index, FromInt(2))
                       /\ FEq(c.distance_to_settlement_km, FNeg(Dec(6, 10)))
                       /\ FEq(c.dam_moraine_integrity, Zero)
                       /\ FEq(locals[t].linear, Dec(42, 10))
            /\ pc[t] = "idle" => /\ response[t] # None
                                 /\ response[t].status = 200
                                 /\ FEq(response[t].risk_score, Dec(985, 1000))
                                 /\ response[t].risk_level = "Critical"

C7_Witness ==
    \E t \in Threads :
        /\ request[t] = Example
        /\ Scored(t)
        /\ response[t].risk_score = Dec(985, 1000)

\* the divisors and the weights as the specification lists them
Divisors ==
    [lake_area_km2 |-> 5, slope_deg |-> 45, rainfall_mm_24h |-> 100,
     temperature_c |-> 20, glacier_melt_index |-> 1,
     distance_to_settlement_km |-> 10, dam_moraine_integrity |-> 1]

Weights ==
    [lake_area_km2 |-> Dec(12, 10), slope_deg |-> Dec(8, 10),
     rainfall_mm_24h |-> Dec(15, 10), temperature_c |-> Dec(3, 10),
     glacier_melt_index |-> Dec(20, 10),
     distance_to_settlement_km |-> FNeg(Dec(6, 10)),
     dam_moraine_integrity |-> FNeg(Dec(22, 10))]

\* scaled_k * weight_k of a request body, the temperature floored at zero
Contribution(b, k) ==
    LET raw == IF k = "temperature_c" /\ FLt(b[k], Zero) THEN Zero ELSE b[k]
    IN  FMul(FDiv(raw, FromInt(Divisors[k])), Weights[k])

\* C8: contributing_factors has exactly the seven feature names as keys,
\* each value is scaled * weight rounded to 3 decimals with the divisors 5,
\* 45, 100, 20, 1, 10, 1 and the weights 1.2, 0.8, 1.5, 0.3, 2.0, -0.6,
\* -2.2, linear is the sum of the seven unrounded contributions minus 1.0,
\* and so the contributions of distance_to_settlement_km and
\* dam_moraine_integrity are never positive and the other five never
\* negative.
C8_Contributions ==
    \A t \in Threads :
        Scored(t) =>
            LET b  == request[t]
                cf == response[t].contributing_factors
                c  == [k \in DOMAIN Divisors |-> Contribution(b, k)]
                lowering == {"distance_to_settlement_km", "dam_moraine_integrity"}
            IN  /\ DOMAIN cf = DOMAIN Divisors
                /\ \A k \in DOMAIN cf : FEq(cf[k], Round3(c[k]))
                /\ FEq(locals[t].linear,
                       FSub(FAdd(FAdd(FAdd(FAdd(FAdd(FAdd(
                           c.lake_area_km2, c.slope_deg), c.rainfall_mm_24h),
                           c.temperature_c), c.glacier_melt_index),
                           c.distance_to_settlement_km),
                           c.dam_moraine_integrity), One))
                /\ \A k \in lowering : FLe(cf[k], Zero) /\ FLe(c[k], Zero)
                /\ \A k \in DOMAIN cf \ lowering : FLe(Zero, cf[k]) /\ FLe(Zero, c[k])

C8_Witness ==
    \E t \in Threads :
        /\ Scored(t)
        /\ FLt(response[t].contributing_factors.dam_moraine_integrity, Zero)
        /\ FLt(response[t].contributing_factors.distance_to_settlement_km, Zero)
        /\ \A k \in {"lake_area_km2", "slope_deg", "rainfall_mm_24h",
                     "temperature_c", "glacier_melt_index"} :
               FLt(Zero, response[t].contributing_factors[k])

\* the tier the thresholds assign to a score
TierOf(x) ==
    CASE FLt(x, Dec(25, 100)) -> "Low"
      [] FLe(Dec(25, 100), x) /\ FLt(x, Dec(5, 10)) -> "Moderate"
      [] FLe(Dec(5, 10), x) /\ FLt(x, Dec(75, 100)) -> "High"
      [] FLe(Dec(75, 100), x) -> "Critical"

\* C10 as claimed: the returned risk_level is the tier that the thresholds
\* assign to the returned risk_score, the probability after rounding to 3
\* decimals.
C10_TierOfReturnedScore ==
    \A t \in Threads :
        Scored(t) => response[t].risk_level = TierOf(response[t].risk_score)

\* C10 as amended: the returned risk_level is the tier of the probability
\* before rounding; it is the tier of the returned risk_score unless the
\* rounding has raised the probability to a threshold (0.25, 0.5 or 0.75),
\* and then it is the tier just below that threshold.
C10_TierBeforeRounding ==
    \A t \in Threads :
        Scored(t) =>
            LET p == locals[t].risk_score
                r == response[t].risk_score
                l == response[t].risk_level
            IN  /\ l = TierOf(p)
                /\ IF FLt(p, r) /\ \E th \in {Dec(25, 100), Dec(5, 10), Dec(75, 100)} :
                                       FEq(r, th)
                   THEN l = TierOf(FSub(r, Dec(1, 1000)))
                   ELSE l = TierOf(r)

C10_Witness ==
    \E t \in Threads :
        /\ Scored(t)
        /\ FLt(locals[t].risk_score, Dec(25, 100))
        /\ response[t].risk_score = Dec(25, 100)
        /\ response[t].risk_level = "Low"

\* the place of a tier in the order Low < Moderate < High < Critical
Rank == [Low |-> 1, Moderate |-> 2, High |-> 3, Critical |-> 4]

\* the fields whose growth raises the risk
Raising == {"lake_area_km2", "slope_deg", "rainfall_mm_24h", "temperature_c",
            "glacier_melt_index"}

\* threads a and b hold scored requests that differ in field k only, the
\* value of b the larger
LargerIn(a, b, k) ==
    /\ Scored(a) /\ Scored(b)
    /\ Differ(request[a], request[b]) = {k}
    /\ FLt(request[a][k], request[b][k])

\* C3: of two valid requests that differ in exactly one field, the one with
\* the larger lake_area_km2, slope_deg, rainfall_mm_24h, temperature_c or
\* glacier_melt_index has a probability that is not smaller and a tier
\* that is not lower, and the one with the larger dam_moraine_integrity or
\* distance_to_settlement_km has a probability that is not larger and a
\* tier that is not higher.
C3_Monotone ==
    \A a, b \in Threads : \A k \in DOMAIN PredictRequest :
        LargerIn(a, b, k) =>
            LET pa == locals[a].risk_score
                pb == locals[b].risk_score
                ra == Rank[response[a].risk_level]
                rb == Rank[response[b].risk_level]
            IN  IF k \in Raising
                THEN FLe(pa, pb) /\ ra <= rb
                ELSE FLe(pb, pa) /\ rb <= ra

C3_Witness ==
    \E a, b \in Threads :
        /\ LargerIn(a, b, "dam_moraine_integrity")
        /\ FLt(locals[b].risk_score, locals[a].risk_score)
        /\ response[a].risk_level = "High"
        /\ response[b].risk_level = "Low"

\* C5: two requests that carry the same seven values get identical
\* responses (risk_score, risk_level, recommendation and
\* contributing_factors), whichever requests were served before them or are
\* served beside them and however the steps of the calls interleave.
C5_Deterministic ==
    \A a, b \in Threads :
        (Served(a) /\ Served(b) /\ request[a] = request[b]) =>
            response[a] = response[b]

C5_Witness ==
    \E a, b \in Threads :
        /\ a # b
        /\ Scored(a) /\ Scored(b)
        /\ request[a] = request[b]
        /\ response[a] = response[b]

\* two responses carry the same numbers and strings
SameResponse(x, y) ==
    /\ x.status = y.status
    /\ FEq(x.risk_score, y.risk_score)
    /\ x.risk_level = y.risk_level
    /\ x.recommendation = y.recommendation
    /\ DOMAIN x.contributing_factors = DOMAIN y.contributing_factors
    /\ \A k \in DOMAIN x.contributing_factors :
           FEq(x.contributing_factors[k], y.contributing_factors[k])

=============================================================================
